---- MODULE Spec2Model ----
(***************************************************************************)
(* Model of training_plans_section.py: the renderer                        *)
(* generate_training_plans_section and the adapter                         *)
(* generate_training_plans_html.  Text is modelled by strings, character   *)
(* for character; Python values by tagged records.                         *)
(***************************************************************************)
EXTENDS Integers, Sequences, FiniteSets, TLC

VARIABLES input, result, seen, ncalls

vars == <<input, result, seen, ncalls>>

\* Number of calls a caller makes in one behaviour.
MaxCalls == 2

(***************************************************************************)
(* Python values.  A dict is a record with one field per key the program   *)
(* reads; a key the dict does not hold has the value Absent.               *)
(***************************************************************************)
Absent == [t |-> "absent"]
None_ == [t |-> "None"]
Str(s) == [t |-> "str", s |-> s]
Dict(d) == [t |-> "dict", d |-> d]

\* dict.get(key, default)
get(d, key, default) == IF d[key] # Absent THEN d[key] ELSE default

\* Python truth value of None, a str or a dict.
truthy(v) ==
  CASE v.t = "None" -> FALSE
    [] v.t = "str" -> v.s # ""
    [] v.t = "dict" -> \E k \in DOMAIN v.d : v.d[k] # Absent

\* str(v), as an f-string replacement field formats a value.
format(v) == IF v.t = "None" THEN "None" ELSE v.s

UpperCase == "ABCDEFGHIJKLMNOPQRSTUVWXYZ"
LowerCase == "abcdefghijklmnopqrstuvwxyz"

lower_char(c) ==
  IF \E i \in 1..Len(UpperCase) : SubSeq(UpperCase, i, i) = c
  THEN LET i == CHOOSE j \in 1..Len(UpperCase) : SubSeq(UpperCase, j, j) = c
       IN SubSeq(LowerCase, i, i)
  ELSE c

RECURSIVE lower(_)
\* str.lower()
lower(s) == IF s = "" THEN "" ELSE lower_char(SubSeq(s, 1, 1)) \o lower(Tail(s))

Whitespace == {" ", "\t", "\n", "\r", "\f"}

RECURSIVE lstrip(_)
lstrip(s) ==
  IF s # "" /\ SubSeq(s, 1, 1) \in Whitespace THEN lstrip(Tail(s)) ELSE s

RECURSIVE rstrip(_)
rstrip(s) ==
  IF s # "" /\ SubSeq(s, Len(s), Len(s)) \in Whitespace
  THEN rstrip(SubSeq(s, 1, Len(s) - 1))
  ELSE s

\* str.strip()
strip(s) == rstrip(lstrip(s))

\* x in h, for strings
Contains(h, x) ==
  \E i \in 1..(Len(h) - Len(x) + 1) : SubSeq(h, i, i + Len(x) - 1) = x

StartsWith(h, x) == Len(x) <= Len(h) /\ SubSeq(h, 1, Len(x)) = x

EndsWith(h, x) == Len(x) <= Len(h) /\ SubSeq(h, Len(h) - Len(x) + 1, Len(h)) = x

\* The character U+2713 (CHECK MARK) of the template, which a TLA+ string
\* cannot hold; no other character of the program is replaced.
CHECK_MARK == "{U+2713}"

get_training_plans_css ==
     "<style>\n"
  \o "/* Training Plans Section - On-Demand Model */\n"
  \o ".gg-training-section {\n"
  \o "  max-width: 1000px;\n"
  \o "  margin: 0 auto;\n"
  \o "  padding: 48px 24px;\n"
  \o "}\n"
  \o "\n"
  \o ".gg-training-header {\n"
  \o "  text-align: center;\n"
  \o "  margin-bottom: 48px;\n"
  \o "}\n"
  \o "\n"
  \o ".gg-training-badge {\n"
  \o "  display: inline-block;\n"
  \o "  background: #F4D03F;\n"
  \o "  color: #2c2c2c;\n"
  \o "  padding: 8px 20px;\n"
  \o "  font-family: 'Sometype Mono', monospace;\n"
  \o "  font-size: 13px;\n"
  \o "  font-weight: 700;\n"
  \o "  text-transform: uppercase;\n"
  \o "  letter-spacing: 0.15em;\n"
  \o "  border: 3px solid #2c2c2c;\n"
  \o "  box-shadow: 4px 4px 0 #2c2c2c;\n"
  \o "  margin-bottom: 20px;\n"
  \o "}\n"
  \o "\n"
  \o ".gg-training-title {\n"
  \o "  font-family: 'Sometype Mono', monospace;\n"
  \o "  font-size: 36px;\n"
  \o "  font-weight: 700;\n"
  \o "  text-transform: uppercase;\n"
  \o "  color: #2c2c2c;\n"
  \o "  margin-bottom: 16px;\n"
  \o "  letter-spacing: 0.02em;\n"
  \o "}\n"
  \o "\n"
  \o ".gg-training-subtitle {\n"
  \o "  font-family: 'Sometype Mono', monospace;\n"
  \o "  font-size: 16px;\n"
  \o "  color: #8C7568;\n"
  \o "  max-width: 650px;\n"
  \o "  margin: 0 auto;\n"
  \o "  line-height: 1.6;\n"
  \o "}\n"
  \o "\n"
  \o ".gg-training-subtitle strong {\n"
  \o "  color: #59473C;\n"
  \o "}\n"
  \o "\n"
  \o "/* 3-Step Process */\n"
  \o ".gg-training-process-row {\n"
  \o "  display: flex;\n"
  \o "  justify-content: center;\n"
  \o "  gap: 24px;\n"
  \o "  margin-bottom: 48px;\n"
  \o "  flex-wrap: wrap;\n"
  \o "}\n"
  \o "\n"
  \o ".gg-training-process-step {\n"
  \o "  background: #fff;\n"
  \o "  border: 3px solid #2c2c2c;\n"
  \o "  padding: 28px 24px;\n"
  \o "  width: 280px;\n"
  \o "  text-align: center;\n"
  \o "  position: relative;\n"
  \o "  box-shadow: 6px 6px 0 #2c2c2c;\n"
  \o "  font-family: 'Sometype Mono', monospace;\n"
  \o "}\n"
  \o "\n"
  \o ".gg-training-process-number {\n"
  \o "  position: absolute;\n"
  \o "  top: -16px;\n"
  \o "  left: 50%;\n"
  \o "  transform: translateX(-50%);\n"
  \o "  background: #4ECDC4;\n"
  \o "  color: #2c2c2c;\n"
  \o "  width: 32px;\n"
  \o "  height: 32px;\n"
  \o "  border: 3px solid #2c2c2c;\n"
  \o "  display: flex;\n"
  \o "  align-items: center;\n"
  \o "  justify-content: center;\n"
  \o "  font-weight: 700;\n"
  \o "  font-size: 14px;\n"
  \o "}\n"
  \o "\n"
  \o ".gg-training-process-step h3 {\n"
  \o "  font-size: 15px;\n"
  \o "  font-weight: 700;\n"
  \o "  text-transform: uppercase;\n"
  \o "  margin-bottom: 12px;\n"
  \o "  margin-top: 8px;\n"
  \o "  letter-spacing: 0.03em;\n"
  \o "  color: #2c2c2c;\n"
  \o "}\n"
  \o "\n"
  \o ".gg-training-process-step p {\n"
  \o "  font-size: 13px;\n"
  \o "  color: #59473C;\n"
  \o "  line-height: 1.6;\n"
  \o "  margin: 0;\n"
  \o "}\n"
  \o "\n"
  \o ".gg-training-device-list {\n"
  \o "  font-size: 12px !important;\n"
  \o "  color: #8C7568 !important;\n"
  \o "  margin-top: 10px !important;\n"
  \o "  font-style: italic;\n"
  \o "}\n"
  \o "\n"
  \o "/* CTA Block */\n"
  \o ".gg-training-cta-block {\n"
  \o "  background: #2c2c2c;\n"
  \o "  padding: 40px;\n"
  \o "  text-align: center;\n"
  \o "  border: 4px solid #2c2c2c;\n"
  \o "  box-shadow: 8px 8px 0 #59473C;\n"
  \o "}\n"
  \o "\n"
  \o ".gg-training-cta-block h3 {\n"
  \o "  font-family: 'Sometype Mono', monospace;\n"
  \o "  color: #F5F5DC;\n"
  \o "  font-size: 24px;\n"
  \o "  font-weight: 700;\n"
  \o "  text-transform: uppercase;\n"
  \o "  margin-bottom: 24px;\n"
  \o "}\n"
  \o "\n"
  \o ".gg-training-cta-button {\n"
  \o "  display: inline-block;\n"
  \o "  background: #4ECDC4;\n"
  \o "  color: #2c2c2c !important;\n"
  \o "  padding: 18px 40px;\n"
  \o "  font-family: 'Sometype Mono', monospace;\n"
  \o "  font-size: 16px;\n"
  \o "  font-weight: 700;\n"
  \o "  text-transform: uppercase;\n"
  \o "  text-decoration: none !important;\n"
  \o "  letter-spacing: 0.05em;\n"
  \o "  border: 3px solid #F5F5DC;\n"
  \o "  box-shadow: 6px 6px 0 #F4D03F;\n"
  \o "  transition: transform 0.1s, box-shadow 0.1s;\n"
  \o "}\n"
  \o "\n"
  \o ".gg-training-cta-button:hover {\n"
  \o "  transform: translate(3px, 3px);\n"
  \o "  box-shadow: 3px 3px 0 #F4D03F;\n"
  \o "  color: #2c2c2c !important;\n"
  \o "}\n"
  \o "\n"
  \o ".gg-training-includes-row {\n"
  \o "  display: flex;\n"
  \o "  justify-content: center;\n"
  \o "  gap: 32px;\n"
  \o "  margin-top: 32px;\n"
  \o "  flex-wrap: wrap;\n"
  \o "}\n"
  \o "\n"
  \o ".gg-training-includes-item {\n"
  \o "  display: flex;\n"
  \o "  align-items: center;\n"
  \o "  gap: 10px;\n"
  \o "  color: #F5F5DC;\n"
  \o "  font-family: 'Sometype Mono', monospace;\n"
  \o "  font-size: 13px;\n"
  \o "}\n"
  \o "\n"
  \o ".gg-training-includes-icon {\n"
  \o "  width: 24px;\n"
  \o "  height: 24px;\n"
  \o "  background: #4ECDC4;\n"
  \o "  border: 2px solid #F5F5DC;\n"
  \o "  display: flex;\n"
  \o "  align-items: center;\n"
  \o "  justify-content: center;\n"
  \o "  font-size: 14px;\n"
  \o "  color: #2c2c2c;\n"
  \o "}\n"
  \o "\n"
  \o ".gg-training-cta-footer {\n"
  \o "  margin-top: 28px;\n"
  \o "  display: flex;\n"
  \o "  justify-content: center;\n"
  \o "  align-items: center;\n"
  \o "  gap: 24px;\n"
  \o "  flex-wrap: wrap;\n"
  \o "}\n"
  \o "\n"
  \o ".gg-training-cta-price {\n"
  \o "  font-family: 'Sometype Mono', monospace;\n"
  \o "  color: #4ECDC4;\n"
  \o "  font-size: 28px;\n"
  \o "  font-weight: 700;\n"
  \o "}\n"
  \o "\n"
  \o ".gg-training-cta-price span {\n"
  \o "  font-size: 14px;\n"
  \o "  color: #A89074;\n"
  \o "  font-weight: 400;\n"
  \o "  margin-left: 8px;\n"
  \o "}\n"
  \o "\n"
  \o ".gg-training-cta-delivery {\n"
  \o "  font-family: 'Sometype Mono', monospace;\n"
  \o "  color: #A89074;\n"
  \o "  font-size: 13px;\n"
  \o "}\n"
  \o "\n"
  \o "/* Responsive */\n"
  \o "@media (max-width: 900px) {\n"
  \o "  .gg-training-process-row {\n"
  \o "    flex-direction: column;\n"
  \o "    align-items: center;\n"
  \o "  }\n"
  \o "  \n"
  \o "  .gg-training-process-step {\n"
  \o "    width: 100%;\n"
  \o "    max-width: 400px;\n"
  \o "  }\n"
  \o "}\n"
  \o "\n"
  \o "@media (max-width: 600px) {\n"
  \o "  .gg-training-includes-row {\n"
  \o "    flex-direction: column;\n"
  \o "    align-items: center;\n"
  \o "  }\n"
  \o "  \n"
  \o "  .gg-training-cta-footer {\n"
  \o "    flex-direction: column;\n"
  \o "  }\n"
  \o "  \n"
  \o "  .gg-training-title {\n"
  \o "    font-size: 28px;\n"
  \o "  }\n"
  \o "}\n"
  \o "</style>"

Template0 ==
     "<section class=\"gg-training-section\" id=\"training\">\n"
  \o "\n"

Template1 ==
     "\n"
  \o "\n"
  \o "  <!-- Section Header -->\n"
  \o "  <div class=\"gg-training-header\">\n"
  \o "    <div class=\"gg-training-badge\">◆ Training Plans</div>\n"
  \o "    <h2 class=\"gg-training-title\">Your Plan. Built for You.</h2>\n"
  \o "    <p class=\"gg-training-subtitle\">We build a plan calibrated to <strong>"

Template2 ==
     "'s</strong> "

Template3 ==
     ".</p>\n"
  \o "  </div>\n"
  \o "  \n"
  \o "  <!-- 3-Step Process -->\n"
  \o "  <div class=\"gg-training-process-row\">\n"
  \o "    <div class=\"gg-training-process-step\">\n"
  \o "      <div class=\"gg-training-process-number\">1</div>\n"
  \o "      <h3>Fill Out the Questionnaire</h3>\n"
  \o "      <p>Hours per week, race goals, schedule constraints, injury history. Takes 5 minutes.</p>\n"
  \o "    </div>\n"
  \o "    <div class=\"gg-training-process-step\">\n"
  \o "      <div class=\"gg-training-process-number\">2</div>\n"
  \o "      <h3>I Build Your Plan</h3>\n"
  \o "      <p>A custom training plan structured around YOUR life with workouts you can upload to any device or platform.</p>\n"
  \o "      <p class=\"gg-training-device-list\">Garmin · Wahoo · Hammerhead · Zwift · TrainerRoad · TrainingPeaks</p>\n"
  \o "    </div>\n"
  \o "    <div class=\"gg-training-process-step\">\n"
  \o "      <div class=\"gg-training-process-number\">3</div>\n"
  \o "      <h3>Train With Confidence</h3>\n"
  \o "      <p>Personalized guide with race strategy, fueling, pacing, and race-day execution.</p>\n"
  \o "    </div>\n"
  \o "  </div>\n"
  \o "  \n"
  \o "  <!-- CTA Block -->\n"
  \o "  <div class=\"gg-training-cta-block\">\n"
  \o "    <h3>Ready to Build Your "

Template4 ==
     " Plan?</h3>\n"
  \o "    \n"
  \o "    <a href=\""

Template5 ==
     "\" class=\"gg-training-cta-button\" target=\"_blank\">\n"
  \o "      Build My Training Plan →\n"
  \o "    </a>\n"
  \o "    \n"
  \o "    <div class=\"gg-training-includes-row\">\n"
  \o "      <div class=\"gg-training-includes-item\">\n"
  \o "        <div class=\"gg-training-includes-icon\">" \o CHECK_MARK \o "</div>\n"
  \o "        <span>Custom structured workouts</span>\n"
  \o "      </div>\n"
  \o "      <div class=\"gg-training-includes-item\">\n"
  \o "        <div class=\"gg-training-includes-icon\">" \o CHECK_MARK \o "</div>\n"
  \o "        <span>ZWO files for all platforms</span>\n"
  \o "      </div>\n"
  \o "      <div class=\"gg-training-includes-item\">\n"
  \o "        <div class=\"gg-training-includes-icon\">" \o CHECK_MARK \o "</div>\n"
  \o "        <span>Personalized race guide</span>\n"
  \o "      </div>\n"
  \o "      <div class=\"gg-training-includes-item\">\n"
  \o "        <div class=\"gg-training-includes-icon\">" \o CHECK_MARK \o "</div>\n"
  \o "        <span>Race-specific strategy</span>\n"
  \o "      </div>\n"
  \o "    </div>\n"
  \o "    \n"
  \o "    <div class=\"gg-training-cta-footer\">\n"
  \o "      <div class=\"gg-training-cta-price\">$199 <span>one-time</span></div>\n"
  \o "      <div class=\"gg-training-cta-delivery\">Plans delivered same day.</div>\n"
  \o "    </div>\n"
  \o "  </div>\n"
  \o "  \n"
  \o "</section>"

QuestionnaireBase ==
  "https://wattgod.github.io/athlete-profiles/athlete-questionnaire.html?race="

questionnaire_url(race_slug) == QuestionnaireBase \o format(race_slug)

\* The f-string html = f"""...""" of the renderer.
section_template(race_name, url, race_challenge) ==
  Template0 \o get_training_plans_css
  \o Template1 \o format(race_name)
  \o Template2 \o format(race_challenge)
  \o Template3 \o format(race_name)
  \o Template4 \o url
  \o Template5

RECURSIVE html_escape(_)
\* html.escape(s): what the renderer would do if it escaped its inputs.
html_escape(s) ==
  IF s = "" THEN ""
  ELSE LET c == SubSeq(s, 1, 1)
       IN (CASE c = "&" -> "&amp;"
             [] c = "<" -> "&lt;"
             [] c = ">" -> "&gt;"
             [] c = "\"" -> "&quot;"
             [] OTHER -> c) \o html_escape(Tail(s))

\* Mutant: the three inputs are HTML-escaped before they are embedded.
generate_training_plans_section_escaped(race_name, race_slug, race_challenge) ==
  strip(section_template(Str(html_escape(format(race_name))),
                         QuestionnaireBase \o html_escape(format(race_slug)),
                         Str(html_escape(format(race_challenge)))))

\* Mutant: the style block is emitted before the section element.
generate_training_plans_section_style_first(race_name, race_slug, race_challenge) ==
  strip(get_training_plans_css \o "\n" \o Template0
        \o Template1 \o format(race_name)
        \o Template2 \o format(race_challenge)
        \o Template3 \o format(race_name)
        \o Template4 \o questionnaire_url(race_slug)
        \o Template5)

\* Mutant: race_name and race_challenge are swapped in the template.
generate_training_plans_section_swapped(race_name, race_slug, race_challenge) ==
  strip(section_template(race_challenge, questionnaire_url(race_slug),
                         race_name))

\* Mutant: an empty race_name is answered by an empty string.
generate_training_plans_section_guarded(race_name, race_slug, race_challenge) ==
  IF format(race_name) = ""
  THEN ""
  ELSE strip(section_template(race_name, questionnaire_url(race_slug),
                              race_challenge))

\* html = f"""..."""; return html.strip()
generate_training_plans_section(race_name, race_slug, race_challenge) ==
  strip(section_template(race_name, questionnaire_url(race_slug),
                         race_challenge))

(***************************************************************************)
(* The outcome of a call: the value returned or the exception raised,      *)
(* the arguments the renderer was invoked with (if it was), and the        *)
(* caller's record as the call leaves it.                                  *)
(***************************************************************************)
Return(html, args, d) ==
  [exc |-> "", ret |-> html, called |-> TRUE, args |-> args, data |-> d]

Raise(e, d) ==
  [exc |-> e, ret |-> "", called |-> FALSE, args |-> <<>>, data |-> d]

EmptyCourse == [signature_challenge |-> Absent, character |-> Absent]

\* Mutant: race.get('display_name') or race.get('name') or 'This Race'
derive_race_name_truthy(race) ==
  IF truthy(get(race, "display_name", None_))
  THEN race["display_name"]
  ELSE IF truthy(get(race, "name", None_))
       THEN race["name"]
       ELSE Str("This Race")

\* race.get('display_name', race.get('name', 'This Race'))
derive_race_name(race) ==
  get(race, "display_name", get(race, "name", Str("This Race")))

\* race.get('slug', 'race')
derive_race_slug(race) == get(race, "slug", Str("race"))

\* Mutant: course_description.character is tried before signature_challenge.
derive_race_challenge_character_first(race) ==
  LET race_challenge == get(race, "race_challenge_tagline", None_)
  IN IF truthy(race_challenge)
     THEN [exc |-> "", v |-> race_challenge]
     ELSE LET course == get(race, "course_description", Dict(EmptyCourse))
          IN IF course.t # "dict"
             THEN [exc |-> "AttributeError", v |-> None_]
             ELSE IF truthy(get(course.d, "character", None_))
                  THEN [exc |-> "",
                        v |-> Str(lower(course.d["character"].s))]
                  ELSE IF truthy(get(course.d, "signature_challenge", None_))
                       THEN [exc |-> "",
                             v |-> Str(lower(
                                     course.d["signature_challenge"].s))]
                       ELSE [exc |-> "",
                             v |-> Str("unique demands and challenging terrain")]

\* The fallback chain of race_challenge.  race.get('course_description', {})
\* yields whatever the key holds; .get on a value that is no dict raises
\* AttributeError, which exc records.
derive_race_challenge(race) ==
  LET race_challenge == get(race, "race_challenge_tagline", None_)
  IN IF truthy(race_challenge)
     THEN [exc |-> "", v |-> race_challenge]
     ELSE LET course == get(race, "course_description", Dict(EmptyCourse))
          IN IF course.t # "dict"
             THEN [exc |-> "AttributeError", v |-> None_]
             ELSE IF truthy(get(course.d, "signature_challenge", None_))
                  THEN [exc |-> "",
                        v |-> Str(lower(course.d["signature_challenge"].s))]
                  ELSE IF truthy(get(course.d, "character", None_))
                       THEN [exc |-> "",
                             v |-> Str(lower(course.d["character"].s))]
                       ELSE [exc |-> "",
                             v |-> Str("unique demands and challenging terrain")]

\* The body of generate_training_plans_html once data['race'] is read.
render_race(race, d) ==
  LET race_name == derive_race_name(race)
      race_slug == derive_race_slug(race)
      race_challenge == derive_race_challenge(race)
  IN IF race_challenge.exc # ""
     THEN Raise(race_challenge.exc, d)
     ELSE Return(generate_training_plans_section(
                   race_name, race_slug, race_challenge.v),
                 <<race_name, race_slug, race_challenge.v>>, d)

Race(dn, n, sl, tg, cd) ==
  [display_name |-> dn, name |-> n, slug |-> sl,
   race_challenge_tagline |-> tg, course_description |-> cd]

Course(sc, ch) == [signature_challenge |-> sc, character |-> ch]

EmptyRace == Race(Absent, Absent, Absent, Absent, Absent)

\* Mutant: race = data.get('race', {})
generate_training_plans_html_default_race(d) ==
  IF d["race"] = Absent THEN render_race(EmptyRace, d)
  ELSE render_race(d["race"].d, d)

\* Mutant: race_challenge = race.pop('race_challenge_tagline', None)
generate_training_plans_html_pop(d) ==
  IF d["race"] = Absent
  THEN Raise("KeyError", d)
  ELSE [render_race(d["race"].d, d) EXCEPT
          !.data = [race |-> Dict([d["race"].d EXCEPT
                                     !.race_challenge_tagline = Absent])]]

\* race = data['race'] raises KeyError when the key is missing.
generate_training_plans_html(d) ==
  IF d["race"] = Absent
  THEN Raise("KeyError", d)
  ELSE render_race(d["race"].d, d)

(***************************************************************************)
(* Inputs.                                                                 *)
(***************************************************************************)
SAMPLE_DATA ==
  [race |-> Dict(Race(
     Str("SBT GRVL"), Str("SBT GRVL"), Str("sbt-grvl"),
     Str("altitude demands and 8,000+ feet of climbing at elevation"),
     Dict(Course(Str("The altitude. Everything else is manageable."),
                 Str("Fast champagne gravel at altitude")))))]

data_without_tagline ==
  [race |-> Dict(Race(
     Str("Test Race"), Str("Test Race"), Str("test-race"), Absent,
     Dict(Course(Str("The heat is brutal."), Absent))))]

DisplayNames == {Absent, None_, Str("SBT GRVL")}
Names == {Absent, Str("Test Race")}
Slugs == {Absent, Str("test-race")}
Taglines == {Absent, None_, Str(""), Str("Altitude Demands")}
SignatureChallenges == {Absent, None_, Str(""), Str("The heat is brutal.")}
Characters == {Absent, Str(""), Str("Fast Champagne Gravel")}
Courses ==
  {Absent, None_}
  \cup {Dict(Course(sc, ch)) : sc \in SignatureChallenges, ch \in Characters}

Records ==
  {[race |-> Absent], SAMPLE_DATA, data_without_tagline}
  \cup {[race |-> Dict(Race(dn, n, sl, tg, cd))] :
          dn \in DisplayNames, n \in Names, sl \in Slugs,
          tg \in Taglines, cd \in Courses}

RaceNames == {"", "SBT GRVL", "<b>R&D</b>", " Unbound "}
RaceSlugs == {"", "sbt-grvl", "a b&c=d\"e"}
RaceChallenges == {"", "altitude demands", " \n", "Heat & <i>dust</i>"}

Params ==
  {<<Str(n), Str(s), Str(c)>> :
     n \in RaceNames, s \in RaceSlugs, c \in RaceChallenges}

(***************************************************************************)
(* The caller holds either a record, for generate_training_plans_html, or  *)
(* three strings, for generate_training_plans_section, and calls the       *)
(* function with them, up to MaxCalls times.                               *)
(***************************************************************************)
NoResult == [fn |-> "none"]

Init ==
  /\ input \in {[fn |-> "html", data |-> d] : d \in Records}
               \cup {[fn |-> "section", params |-> p] : p \in Params}
  /\ result = NoResult
  /\ seen = {}
  /\ ncalls = 0

CallHtml ==
  /\ input.fn = "html"
  /\ ncalls < MaxCalls
  /\ LET out == generate_training_plans_html(input.data)
     IN /\ result' = [fn |-> "html", arg |-> input.data, out |-> out]
        /\ seen' = seen \cup {out}
        /\ input' = [input EXCEPT !.data = out.data]
  /\ ncalls' = ncalls + 1

CallSection ==
  /\ input.fn = "section"
  /\ ncalls < MaxCalls
  /\ LET p == input.params
         out == Return(generate_training_plans_section(p[1], p[2], p[3]),
                       p, p)
     IN /\ result' = [fn |-> "section", arg |-> p, out |-> out]
        /\ seen' = seen \cup {out}
  /\ ncalls' = ncalls + 1
  /\ UNCHANGED input

Next == CallHtml \/ CallSection

Spec == Init /\ [][Next]_vars

(***************************************************************************)
(* Properties.                                                             *)
(***************************************************************************)
HtmlCalled == result.fn = "html"
SectionCalled == result.fn = "section"
HasRace == HtmlCalled /\ result.arg["race"] # Absent
Present(v) == v # Absent
NonEmpty(v) == v.t = "str" /\ v.s # ""

\* A record of the documented shape: course_description, when the key is
\* there, holds a mapping.
DataModelRace(race) ==
  race["course_description"] = Absent \/ race["course_description"].t = "dict"

LiteralChallenge == "unique demands and challenging terrain"

\* The documented fallback chain, read off the record's fields.
ChainChallenge(race) ==
  LET tagline == race["race_challenge_tagline"]
      course == race["course_description"]
  IN IF NonEmpty(tagline) THEN tagline.s
     ELSE IF course.t = "dict" /\ NonEmpty(course.d["signature_challenge"])
          THEN lower(course.d["signature_challenge"].s)
          ELSE IF course.t = "dict" /\ NonEmpty(course.d["character"])
               THEN lower(course.d["character"].s)
               ELSE LiteralChallenge

\* C1: whenever generate_training_plans_html invokes the renderer, the
\* race_challenge it passes is the first match of the chain tagline (verbatim),
\* signature_challenge (lower-cased), character (lower-cased), literal; that
\* text stands in the subtitle of the returned HTML; and for every record whose
\* course_description is absent or a mapping the renderer is invoked.
C1_FallbackChain ==
  HasRace =>
    LET race == result.arg["race"].d
        out == result.out
    IN /\ DataModelRace(race) => out.called /\ out.exc = ""
       /\ out.called =>
            /\ out.args[3] = Str(ChainChallenge(race))
            /\ Contains(out.ret,
                        "</strong> " \o ChainChallenge(race) \o ".</p>")

\* C1 witness: tagline and signature_challenge both set, the tagline (with its
\* capitals) was passed on.
C1_Witness ==
  /\ HasRace
  /\ result.arg["race"].d["race_challenge_tagline"] = Str("Altitude Demands")
  /\ result.arg["race"].d["course_description"].t = "dict"
  /\ result.arg["race"].d["course_description"].d["signature_challenge"]
       = Str("The heat is brutal.")
  /\ result.out.called
  /\ result.out.args[3] = Str("Altitude Demands")

\* C2: every call with a record that holds a 'race' mapping returns HTML and
\* raises nothing, whichever optional fields are absent, empty or null.
C2_FailsOnlyWithoutRace ==
  HasRace => result.out.exc = "" /\ result.out.called

\* C3: a record without the 'race' key ends in KeyError; the renderer is not
\* invoked and nothing is returned.
C3_MissingRaceKey ==
  HtmlCalled /\ result.arg["race"] = Absent =>
    /\ result.out.exc = "KeyError"
    /\ ~result.out.called
    /\ result.out.ret = ""

\* C3 witness: the adapter was called with the record {}.
C3_Witness ==
  /\ HtmlCalled
  /\ result.arg = [race |-> Absent]
  /\ result.out.exc = "KeyError"

\* C4: the output holds race_name verbatim in the subtitle and in the
\* call-to-action heading, race_challenge verbatim in the subtitle, and the
\* link's href ends with "?race=" and race_slug verbatim.
C4_InputsVerbatim ==
  SectionCalled =>
    LET n == result.arg[1].s
        s == result.arg[2].s
        c == result.arg[3].s
        html == result.out.ret
    IN /\ Contains(html, "<strong>" \o n \o "'s</strong> " \o c \o ".</p>")
       /\ Contains(html, "<h3>Ready to Build Your " \o n \o " Plan?</h3>")
       /\ Contains(html, "<a href=\"" \o QuestionnaireBase \o s
                           \o "\" class=\"gg-training-cta-button\"")
       /\ EndsWith(QuestionnaireBase \o s, "?race=" \o s)

\* C4 witness: a call whose three inputs all hold HTML-special characters.
C4_Witness ==
  /\ SectionCalled
  /\ result.arg = <<Str("<b>R&D</b>"), Str("a b&c=d\"e"),
                    Str("Heat & <i>dust</i>")>>
  /\ result.out.exc = ""

ExpectedQuestionnaireBase ==
  "https://wattgod.github.io/training-plans-component/training-plan-questionnaire.html?race="

\* C5: the output holds the questionnaire URL of the training-plans-component
\* site followed by race_slug.
C5_QuestionnaireUrl ==
  SectionCalled =>
    Contains(result.out.ret, ExpectedQuestionnaireBase \o result.arg[2].s)

SectionOpenTag == "<section class=\"gg-training-section\" id=\"training\">"

\* C6 as stated: the style block comes first, the section element follows it.
C6_StyleBlockFirst ==
  SectionCalled =>
    /\ StartsWith(result.out.ret, get_training_plans_css)
    /\ Contains(SubSeq(result.out.ret, Len(get_training_plans_css) + 1,
                       Len(result.out.ret)), SectionOpenTag)

\* C6 amended: the output is one section element, from its opening tag to
\* </section>; the style block is inside it, right after the opening tag and
\* before the header, and the process row and call-to-action block follow.
C6_StyleInsideSection ==
  SectionCalled =>
    LET html == result.out.ret
    IN /\ StartsWith(html, SectionOpenTag \o "\n\n" \o get_training_plans_css
                             \o "\n\n  <!-- Section Header -->\n"
                             \o "  <div class=\"gg-training-header\">")
       /\ Contains(html, "<div class=\"gg-training-process-row\">")
       /\ Contains(html, "<div class=\"gg-training-cta-block\">")
       /\ EndsWith(html, "</div>\n  \n</section>")

\* C6 witness: a rendered section that opens with the section tag and holds
\* the style block.
C6_Witness ==
  /\ SectionCalled
  /\ StartsWith(result.out.ret, "<section")
  /\ Contains(result.out.ret, "<style>")

Scenario == <<Str("SBT GRVL"), Str("sbt-grvl"), Str("altitude demands")>>

\* C7 as stated: the scenario's output holds "?race=sbt-grvl", the contiguous
\* text "SBT GRVL's altitude demands" and "Build My Training Plan".
C7_ScenarioAsStated ==
  SectionCalled /\ result.arg = Scenario =>
    /\ Contains(result.out.ret, "?race=sbt-grvl")
    /\ Contains(result.out.ret, "SBT GRVL's altitude demands")
    /\ Contains(result.out.ret, "Build My Training Plan")

\* C7 amended: the name and the challenge are separated by the closing
\* </strong> tag: the output holds "<strong>SBT GRVL's</strong> altitude
\* demands", "?race=sbt-grvl" and "Build My Training Plan".
C7_Scenario ==
  SectionCalled /\ result.arg = Scenario =>
    /\ Contains(result.out.ret, "?race=sbt-grvl")
    /\ Contains(result.out.ret, "<strong>SBT GRVL's</strong> altitude demands")
    /\ Contains(result.out.ret, "Build My Training Plan")

\* C7 witness: the scenario's call has returned.
C7_Witness ==
  SectionCalled /\ result.arg = Scenario /\ result.out.ret # ""

\* C8: the renderer receives display_name if the key is there, else name if
\* that key is there, else "This Race", and slug if the key is there, else
\* "race"; a 'race' mapping with none of the fields yields non-empty HTML with
\* the three fallback texts.
C8_NameAndSlug ==
  HasRace =>
    LET race == result.arg["race"].d
        out == result.out
    IN /\ out.called =>
            /\ out.args[1] = (IF Present(race["display_name"])
                              THEN race["display_name"]
                              ELSE IF Present(race["name"])
                                   THEN race["name"]
                                   ELSE Str("This Race"))
            /\ out.args[2] = (IF Present(race["slug"]) THEN race["slug"]
                              ELSE Str("race"))
       /\ DataModelRace(race) => out.called
       /\ race = EmptyRace =>
            /\ out.exc = "" /\ out.ret # ""
            /\ Contains(out.ret, "<strong>This Race's</strong>")
            /\ Contains(out.ret, "Ready to Build Your This Race Plan?")
            /\ Contains(out.ret, "?race=race\"")
            /\ Contains(out.ret, LiteralChallenge)

\* C8 witness: the adapter returned for a 'race' mapping with no field.
C8_Witness ==
  HasRace /\ result.arg["race"].d = EmptyRace /\ result.out.exc = ""

\* C9: the renderer returns, for every three strings, a non-empty string with
\* no whitespace at either end that holds the fixed markers.
C9_RendererTotal ==
  SectionCalled =>
    LET html == result.out.ret
    IN /\ result.out.exc = ""
       /\ html # ""
       /\ SubSeq(html, 1, 1) \notin Whitespace
       /\ SubSeq(html, Len(html), Len(html)) \notin Whitespace
       /\ Contains(html, "id=\"training\"")
       /\ Contains(html, "Training Plans")
       /\ Contains(html, "Fill Out the Questionnaire")
       /\ Contains(html, "I Build Your Plan")
       /\ Contains(html, "Train With Confidence")
       /\ Contains(html, "Garmin · Wahoo · Hammerhead · Zwift · TrainerRoad · TrainingPeaks")
       /\ Contains(html, "$199")

\* C9 witness: the renderer was called with three empty strings.
C9_Witness ==
  SectionCalled /\ result.arg = <<Str(""), Str(""), Str("")>>

====
